---- MODULE Spec2Model ----
(***************************************************************************)
(* Model of server/bleep/src/webserver/answer.rs: the `handle` request     *)
(* pipeline (query parse, semantic search, per-file overlap removal,       *)
(* ranking and truncation, snippet selection, file fetch, context growth,  *)
(* explanation, reordering, analytics, response) and the helper `grow`.    *)
(*                                                                         *)
(* Conventions.  Vec indices and byte offsets are 0-based as in the Rust   *)
(* code; At(s, i) reads the element at 0-based index i.  Option<T> is a    *)
(* sequence of length 0 (None) or 1 (Some).  f32 scores are integers (the  *)
(* code only compares them).  File content is a sequence of bytes, each    *)
(* either the newline NL or another byte X.                                *)
(***************************************************************************)
EXTENDS Integers, Sequences, FiniteSets, TLC

VARIABLES
    pc,                     \* position of the request inside `handle`
    query,                  \* outcome of parser::parse_nl / query.target() for params.q
    backend,                \* what app.semantic.search answers for this request
    snippets_by_file,       \* HashMap<String, Vec<Snippet>>
    order,                  \* iteration order of the HashMap in into_iter() (Option)
    snippets,               \* Vec<Snippet>, the ranked shortlist
    calls,                  \* external calls issued so far, in order
    relevant_snippet_index, \* Option<usize>
    select_status,          \* Option: HTTP status of the select_snippet response
    explain_status,         \* Option: HTTP status of the explain_snippet response
    doc,                    \* Option: the ContentDocument returned by by_path
    grow_size,              \* the loop variable of the growth loop
    grown,                  \* Option: the last slice computed by grow, with its size
    tokens_used,            \* Option: token count of the explain prompt
    max_tokens,             \* Option: max_tokens sent with the explain request
    err,                    \* Option: ErrorKind of the error response
    snippet_explanation,    \* Option: the text of the explain_snippet response
    payload,                \* Option: the AnswerResponse
    grow_in,                \* arguments of a direct call of grow
    grow_out                \* Option: result of that call

vars == <<pc, query, backend, snippets_by_file, order, snippets, calls,
          relevant_snippet_index, select_status, explain_status, doc, grow_size,
          grown, tokens_used, max_tokens, err, snippet_explanation, payload,
          grow_in, grow_out>>

(***************************************************************************)
(* Bounds of the model.                                                    *)
(***************************************************************************)
\* longest search result of the resolver specification
MaxRaw == 3
\* line numbers of the resolver specification are 1..MaxLine
MaxLine == 3
\* longest search result drawn freely in the pipeline specification
MaxHits == 3
\* longest file content of the grow specification
MaxContent == 5
\* largest window size of the grow specification
MaxSize == 2

(***************************************************************************)
(* Program constants.                                                      *)
(***************************************************************************)
SNIPPET_COUNT == 15
InitialGrowSize == 40
GrowStepSize == 10
GrowTokenLimit == 2000
MaxGrowSize == 100
ContextWindow == 4096
MinCompletion == 1
MaxCompletion == 500
SERVICE_UNAVAILABLE == 503

(***************************************************************************)
(* Generic helpers.                                                        *)
(***************************************************************************)
None == <<>>
Some(x) == <<x>>
At(s, i) == s[i + 1]
Range(s) == {s[i] : i \in DOMAIN s}
Min(a, b) == IF a <= b THEN a ELSE b
Max(a, b) == IF a >= b THEN a ELSE b
SeqsUpTo(S, n) == UNION {[1..k -> S] : k \in 0..n}
Perms(S) == {f \in [1..Cardinality(S) -> S] : \A i, j \in DOMAIN f : i # j => f[i] # f[j]}
Count(s, x) == Cardinality({i \in DOMAIN s : s[i] = x})

\* Iterator::take(n).collect()
Take(s, n) == SubSeq(s, 1, Min(n, Len(s)))

\* Vec::remove(idx), idx 0-based
RemoveAt(s, idx) == SubSeq(s, 1, idx) \o SubSeq(s, idx + 2, Len(s))

\* a stable move of the element at index a to index b = 0 (not what swap does)
MoveToFront(s, a, b) ==
    [i \in DOMAIN s |-> IF i = b + 1 THEN s[a + 1] ELSE IF i <= a + 1 THEN s[i - 1] ELSE s[i]]

\* Vec::swap(a, b), 0-based
Swap(s, a, b) ==
    [i \in DOMAIN s |-> IF i = a + 1 THEN s[b + 1] ELSE IF i = b + 1 THEN s[a + 1] ELSE s[i]]

Reverse(s) == [i \in DOMAIN s |-> s[Len(s) + 1 - i]]

\* slice::sort_by is a stable sort: elements are pairs [k, v], ascending by k
RECURSIVE InsertStable(_, _)
InsertStable(sorted, x) ==
    IF sorted = <<>> THEN <<x>>
    ELSE IF sorted[Len(sorted)].k <= x.k THEN Append(sorted, x)
    ELSE Append(InsertStable(SubSeq(sorted, 1, Len(sorted) - 1), x), sorted[Len(sorted)])

RECURSIVE StableSort(_)
StableSort(s) ==
    IF s = <<>> THEN <<>>
    ELSE InsertStable(StableSort(SubSeq(s, 1, Len(s) - 1)), s[Len(s)])

\* s.sort_by(|a, b| a.end_line.cmp(&b.end_line))
SortByEndLine(s) ==
    LET r == StableSort([i \in DOMAIN s |-> [k |-> s[i].end_line, v |-> s[i]]])
    IN  [i \in DOMAIN r |-> r[i].v]

\* s.sort_by(|a, b| a.score.partial_cmp(&b.score).unwrap())
SortByScore(s) ==
    LET r == StableSort([i \in DOMAIN s |-> [k |-> s[i].score, v |-> s[i]]])
    IN  [i \in DOMAIN r |-> r[i].v]

(***************************************************************************)
(* api::Snippet.  lang, repo_name, repo_ref and text do not influence the  *)
(* control flow and are left out.                                          *)
(***************************************************************************)
Snippet(path, sl, el, sb, eb, sc) ==
    [relative_path |-> path, start_line |-> sl, end_line |-> el,
     start_byte |-> sb, end_byte |-> eb, score |-> sc]

(***************************************************************************)
(* Passage grouping: the fold into a HashMap keyed by relative_path.       *)
(***************************************************************************)
GroupByFile(hits) ==
    [p \in {hits[i].relative_path : i \in DOMAIN hits} |->
        SelectSeq(hits, LAMBDA h : h.relative_path = p)]

(***************************************************************************)
(* Overlap removal inside one file.                                        *)
(***************************************************************************)
\* does the new item overlap with the previously selected item?
OverlapsOffByOne(next_item, previous_item) ==
    next_item.start_line <= previous_item.end_line + 1

OverlapsStrict(next_item, previous_item) ==
    next_item.start_line < previous_item.end_line

Overlaps(next_item, previous_item) ==
    next_item.start_line <= previous_item.end_line

\* the loop `for next_idx in 1..s.len()`; st = [selected, rejected] index vectors
RECURSIVE GreedyScan(_, _, _)
GreedyScan(s, next_idx, st) ==
    IF next_idx >= Len(s) THEN st
    ELSE LET previous_idx == st.selected[Len(st.selected)]
             previous_item == At(s, previous_idx)
             next_item == At(s, next_idx)
         IN  IF Overlaps(next_item, previous_item)
             THEN GreedyScan(s, next_idx + 1,
                             [st EXCEPT !.rejected = Append(@, next_idx)])
             ELSE GreedyScan(s, next_idx + 1,
                             [st EXCEPT !.selected = Append(@, next_idx)])

\* `for idx in rejected_indices { s.remove(idx); }`
RECURSIVE RemoveAll(_, _)
RemoveAll(s, indices) ==
    IF indices = <<>> THEN s
    ELSE RemoveAll(RemoveAt(s, indices[1]), Tail(indices))

\* the body of the loop over snippets_by_file, for one non-empty group
ResolveGroup(group) ==
    LET s == SortByEndLine(group)
        st == GreedyScan(s, 1, [selected |-> <<0>>, rejected |-> <<>>])
        kept == RemoveAll(s, Reverse(st.rejected))
    IN  SortByScore(kept)

ResolveAll(map) ==
    [p \in DOMAIN map |-> IF map[p] # <<>> THEN ResolveGroup(map[p]) ELSE map[p]]

(***************************************************************************)
(* Ranking: flatten in the map's iteration order, sort by score, truncate. *)
(***************************************************************************)
RECURSIVE Flatten(_, _)
Flatten(map, ord) ==
    IF ord = <<>> THEN <<>> ELSE map[ord[1]] \o Flatten(map, Tail(ord))

RankWith(map, ord) == Take(SortByScore(Flatten(map, ord)), SNIPPET_COUNT)

(***************************************************************************)
(* The selector's reply: `.text()`, `.trim()`, `.parse::<usize>()`.        *)
(* A body is a sequence of one-character strings.                          *)
(***************************************************************************)
DigitChars == <<"0", "1", "2", "3", "4", "5", "6", "7", "8", "9">>
IsDigit(c) == \E d \in DOMAIN DigitChars : DigitChars[d] = c
DigitValue(c) == (CHOOSE d \in DOMAIN DigitChars : DigitChars[d] = c) - 1
IsWhitespace(c) == c \in {" ", "\n", "\t", "\r"}

RECURSIVE TrimStart(_)
TrimStart(b) == IF b # <<>> /\ IsWhitespace(Head(b)) THEN TrimStart(Tail(b)) ELSE b

RECURSIVE TrimEnd(_)
TrimEnd(b) ==
    IF b # <<>> /\ IsWhitespace(b[Len(b)]) THEN TrimEnd(SubSeq(b, 1, Len(b) - 1)) ELSE b

\* str::trim
Trim(b) == TrimEnd(TrimStart(b))

RECURSIVE DigitsValue(_)
DigitsValue(ds) ==
    IF ds = <<>> THEN 0 ELSE 10 * DigitsValue(SubSeq(ds, 1, Len(ds) - 1)) + DigitValue(ds[Len(ds)])

\* usize::from_str: an optional leading "+", then one or more decimal digits;
\* None on anything else (values beyond usize::MAX are not drawn by the model)
ParseUsize(b) ==
    LET ds == IF b # <<>> /\ Head(b) = "+" THEN Tail(b) ELSE b
    IN  IF ds # <<>> /\ \A i \in DOMAIN ds : IsDigit(ds[i]) THEN Some(DigitsValue(ds)) ELSE None

\* the decimal text of n, for n < 100
Decimal(n) ==
    IF n < 10 THEN <<DigitChars[n + 1]>> ELSE <<DigitChars[(n \div 10) + 1], DigitChars[(n % 10) + 1]>>

(***************************************************************************)
(* grow: the text of a snippet extended by `size` lines above and below.   *)
(***************************************************************************)
NL == "\n"
X == "x"

\* byte offsets of the newlines of content[from..to), ascending (the scan splits
\* the range in halves)
RECURSIVE NewlinesIn(_, _, _)
NewlinesIn(content, from, to) ==
    IF from >= to THEN <<>>
    ELSE IF to = from + 1 THEN (IF At(content, from) = NL THEN <<from>> ELSE <<>>)
    ELSE LET mid == (from + to) \div 2
         IN  NewlinesIn(content, from, mid) \o NewlinesIn(content, mid, to)

\* Iterator::nth(n): the element after skipping n
Nth(it, n) == IF n < Len(it) THEN Some(it[n + 1]) ELSE None

\* the forward scan without the correction by snippet.end_byte
NewEndByteUncorrected(content, end_byte, size) ==
    LET it == NewlinesIn(content, end_byte, Len(content))
        rel == [i \in DOMAIN it |-> it[i] - end_byte]
        n == Nth(rel, size)
    IN  IF n = None THEN Len(content) ELSE n[1]

\* content[snippet.end_byte..].match_indices('\n').nth(size), plus end_byte
NewEndByte(content, end_byte, size) ==
    LET it == NewlinesIn(content, end_byte, Len(content))
        rel == [i \in DOMAIN it |-> it[i] - end_byte]
        n == Nth(rel, size)
    IN  IF n = None THEN Len(content) ELSE n[1] + end_byte

\* content[..snippet.start_byte].rmatch_indices('\n').nth(size)
NewStartByte(content, start_byte, size) ==
    LET n == Nth(Reverse(NewlinesIn(content, 0, start_byte)), size)
    IN  IF n = None THEN 0 ELSE n[1]

\* the result of grow: None when a slice expression panics (a range end beyond the
\* content, or a range whose start exceeds its end), else the new range and its text
Grow(content, start_byte, end_byte, size) ==
    IF start_byte > Len(content) \/ end_byte > Len(content) THEN None
    ELSE LET s == NewStartByte(content, start_byte, size)
             e == NewEndByte(content, end_byte, size)
         IN  IF s > e THEN None
             ELSE Some([new_start_byte |-> s, new_end_byte |-> e,
                        text |-> SubSeq(content, s + 1, e)])

(***************************************************************************)
(* The growth loop's exit test and the explanation budget.                 *)
(***************************************************************************)
LoopBreaksConjoined(token_count, size) ==
    token_count > GrowTokenLimit /\ size > MaxGrowSize

LoopBreaks(token_count, size) ==
    token_count > GrowTokenLimit \/ size > MaxGrowSize

\* usize::saturating_sub
SaturatingSub(a, b) == IF a >= b THEN a - b ELSE 0

ClampNoFloor(v) == Min(v, MaxCompletion)

\* max_tokens.clamp(1, 500)
Clamp(v) == Max(MinCompletion, Min(v, MaxCompletion))

(***************************************************************************)
(* The environment of one request.                                         *)
(***************************************************************************)
\* a file of `lines` lines, each the two bytes "x\n"
FileOfLines(lines) == [i \in 1..(2 * lines) |-> IF i % 2 = 0 THEN NL ELSE X]

\* the byte offset at which line `line` (1-based) of such a file starts
ByteOfLine(line) == 2 * (line - 1)

\* a passage of such a file covering the half-open line range [sl, el)
PassageAt(path, sl, el, sc) == Snippet(path, sl, el, ByteOfLine(sl), ByteOfLine(el), sc)

\* the documents the file index may hold for a path: one with more than 110 lines on
\* both sides of the passages, and one that has been truncated since the passages
\* were indexed
Docs == {"large", "stale"}
DocContent(d) ==
    CASE d = "large" -> FileOfLines(300)
      [] d = "stale" -> FileOfLines(10)

Scores == {1, 2}

\* passages of the pipeline specification: two disjoint line ranges of one file and
\* one of another file, all with the same score
PipelinePassages ==
    {PassageAt("a.py", 120, 121, 1), PassageAt("a.py", 122, 123, 1),
     PassageAt("b.py", 120, 121, 1)}

\* a search result longer than SNIPPET_COUNT: disjoint passages alternating between
\* the two files, all with the same score
BigResult ==
    [i \in 1..(SNIPPET_COUNT + 2) |->
        PassageAt(IF i % 2 = 1 THEN "a.py" ELSE "b.py", 2 * i, 2 * i + 1, 1)]

\* passages of the resolver specification: every line range with
\* start_line <= end_line <= MaxLine of one file, with every score, and one passage
\* of a second file
ResolverPassages ==
    {PassageAt("a.py", r[1], r[2], sc) :
        r \in {q \in (1..MaxLine) \X (1..MaxLine) : q[1] <= q[2]}, sc \in Scores}
        \cup {PassageAt("b.py", 1, 1, 1)}

SearchOk(hits) == [kind |-> "ok", hits |-> hits]
SearchFail == [kind |-> "fail", hits |-> <<>>]
SearchMalformed == [kind |-> "malformed", hits |-> <<>>]

\* outcomes of AnswerAPIClient::send: Err(reqwest::Error), whose status() may be
\* None or Some(code), or Ok(Response) with the response's status and body.  send
\* resolves to Ok for every HTTP status (nothing calls error_for_status); the
\* body is None when reading it fails.
SendErr(status) == [sent |-> "err", status |-> status, body |-> None]
SendOk(status, body) == [sent |-> "resp", status |-> Some(status), body |-> body]

SelectBodies(n) ==
    {Decimal(i) : i \in 0..n}
        \cup {Decimal(99), <<" ">> \o Decimal(0) \o <<"\n">>, <<"+", "0">>, <<"-", "1">>,
              <<"n", "o">>, <<>>}

SelectResponses(n) ==
    {SendErr(None), SendErr(Some(SERVICE_UNAVAILABLE)), SendOk(200, None)}
        \cup {SendOk(200, Some(b)) : b \in SelectBodies(n)}
        \cup {SendOk(SERVICE_UNAVAILABLE, Some(b)) : b \in {Decimal(0), <<"n", "o">>}}

ExplainResponses ==
    {SendErr(None), SendErr(Some(SERVICE_UNAVAILABLE)), SendOk(200, None),
     SendOk(200, Some("explanation")), SendOk(SERVICE_UNAVAILABLE, Some("Service Unavailable"))}

\* results of gpt2_token_count on a grown text and on an explain prompt
GrowTokenCounts == {GrowTokenLimit, GrowTokenLimit + 1}
ExplainTokenCounts == {100, 3597, 4096, 4200}

(***************************************************************************)
(* Initial states.                                                         *)
(***************************************************************************)
InitRequest ==
    /\ pc = "start"
    /\ snippets_by_file = <<>>
    /\ order = None
    /\ snippets = <<>>
    /\ calls = <<>>
    /\ relevant_snippet_index = None
    /\ select_status = None
    /\ explain_status = None
    /\ doc = None
    /\ grow_size = InitialGrowSize
    /\ grown = None
    /\ tokens_used = None
    /\ max_tokens = None
    /\ err = None
    /\ snippet_explanation = None
    /\ payload = None
    /\ grow_in = None
    /\ grow_out = None

Init ==
    /\ InitRequest
    /\ query \in {"ok", "unparsable", "no_target"}
    /\ backend \in {SearchFail, SearchMalformed, SearchOk(BigResult)}
                       \cup {SearchOk(h) : h \in SeqsUpTo(PipelinePassages, MaxHits)}

InitResolver ==
    /\ InitRequest
    /\ query = "ok"
    /\ backend \in {SearchOk(h) : h \in SeqsUpTo(ResolverPassages, MaxRaw)}

(***************************************************************************)
(* The steps of `handle`.                                                  *)
(***************************************************************************)
\* the error is built but the handler does not return
FailWithoutReturn(kind) ==
    /\ pc' = pc
    /\ err' = Some(kind)

\* return Err(super::error(kind, ..)) / the `?` operator
Fail(kind) ==
    /\ pc' = "failed"
    /\ err' = Some(kind)

\* parser::parse_nl and query.target()
Parse ==
    /\ pc = "start"
    /\ IF query = "ok"
       THEN pc' = "search" /\ err' = err
       ELSE Fail("User")
    /\ UNCHANGED <<query, backend, snippets_by_file, order, snippets, calls,
                   relevant_snippet_index, select_status, explain_status, doc,
                   grow_size, grown, tokens_used, max_tokens, snippet_explanation,
                   payload, grow_in, grow_out>>

\* app.semantic.search(..).await, the decoding of the payloads and the fold
Search ==
    /\ pc = "search"
    /\ calls' = Append(calls, "search")
    /\ CASE backend.kind = "fail" ->
              Fail("Internal") /\ UNCHANGED snippets_by_file
         [] backend.kind = "malformed" ->
              pc' = "panicked" /\ UNCHANGED <<err, snippets_by_file>>
         [] backend.kind = "ok" ->
              /\ snippets_by_file' = GroupByFile(backend.hits)
              /\ pc' = "grouped"
              /\ UNCHANGED err
    /\ UNCHANGED <<query, backend, order, snippets, relevant_snippet_index,
                   select_status, explain_status, doc, grow_size, grown, tokens_used,
                   max_tokens, snippet_explanation, payload, grow_in, grow_out>>

\* remove overlapping snippets in each file
Resolve ==
    /\ pc = "grouped"
    /\ snippets_by_file' = ResolveAll(snippets_by_file)
    /\ pc' = "resolved"
    /\ UNCHANGED <<query, backend, order, snippets, calls, relevant_snippet_index,
                   select_status, explain_status, doc, grow_size, grown, tokens_used,
                   max_tokens, err, snippet_explanation, payload, grow_in, grow_out>>

\* flatten, sort, take; the error built when `snippets` is empty is dropped, not
\* returned, so the emptiness test changes nothing
Rank ==
    /\ pc = "resolved"
    /\ \E ord \in Perms(DOMAIN snippets_by_file) :
          /\ order' = Some(ord)
          /\ snippets' = RankWith(snippets_by_file, ord)
    /\ pc' = "ranked"
    /\ UNCHANGED <<query, backend, snippets_by_file, calls, relevant_snippet_index,
                   select_status, explain_status, doc, grow_size, grown, tokens_used,
                   max_tokens, err, snippet_explanation, payload, grow_in, grow_out>>

\* select_snippet(..).await, the reading and parsing of its reply, snippets.get(..)
Select ==
    /\ pc = "ranked"
    /\ calls' = Append(calls, "select")
    /\ \E r \in SelectResponses(Len(snippets)) :
          IF r.sent = "err"
          THEN /\ Fail(IF r.status = Some(SERVICE_UNAVAILABLE) THEN "UpstreamService" ELSE "Internal")
               /\ UNCHANGED <<select_status, relevant_snippet_index>>
          ELSE /\ select_status' = r.status
               /\ IF r.body = None
                  THEN Fail("Internal") /\ UNCHANGED relevant_snippet_index
                  ELSE LET parsed == ParseUsize(Trim(r.body[1]))
                       IN  IF parsed = None
                           THEN Fail("Internal") /\ UNCHANGED relevant_snippet_index
                           ELSE /\ relevant_snippet_index' = parsed
                                /\ IF parsed[1] < Len(snippets)
                                   THEN pc' = "selected" /\ UNCHANGED err
                                   ELSE Fail("Internal")
    /\ UNCHANGED <<query, backend, snippets_by_file, order, snippets, explain_status,
                   doc, grow_size, grown, tokens_used, max_tokens, snippet_explanation,
                   payload, grow_in, grow_out>>

\* repo_ref.parse::<RepoRef>() and app.indexes.file.by_path(..).await
Fetch ==
    /\ pc = "selected"
    /\ \E repo_ref_ok \in BOOLEAN :
          IF ~repo_ref_ok
          THEN Fail("Internal") /\ UNCHANGED <<calls, doc>>
          ELSE /\ calls' = Append(calls, "fetch")
               /\ \E d \in {None} \cup {Some(x) : x \in Docs} :
                     IF d = None
                     THEN Fail("Internal") /\ UNCHANGED doc
                     ELSE doc' = d /\ pc' = "growing" /\ UNCHANGED err
    /\ UNCHANGED <<query, backend, snippets_by_file, order, snippets,
                   relevant_snippet_index, select_status, explain_status, grow_size,
                   grown, tokens_used, max_tokens, snippet_explanation, payload,
                   grow_in, grow_out>>

\* one iteration of the growth loop
GrowStep ==
    /\ pc = "growing"
    /\ LET relevant_snippet == At(snippets, relevant_snippet_index[1])
           grown_text == Grow(DocContent(doc[1]), relevant_snippet.start_byte,
                              relevant_snippet.end_byte, grow_size)
       IN  IF grown_text = None
           THEN pc' = "panicked" /\ UNCHANGED <<grown, grow_size>>
           ELSE /\ grown' = Some([size |-> grow_size,
                                  new_start_byte |-> grown_text[1].new_start_byte,
                                  new_end_byte |-> grown_text[1].new_end_byte])
                /\ \E token_count \in GrowTokenCounts :
                      IF LoopBreaks(token_count, grow_size)
                      THEN pc' = "grown" /\ UNCHANGED grow_size
                      ELSE grow_size' = grow_size + GrowStepSize /\ UNCHANGED pc
    /\ UNCHANGED <<query, backend, snippets_by_file, order, snippets, calls,
                   relevant_snippet_index, select_status, explain_status, doc,
                   tokens_used, max_tokens, err, snippet_explanation, payload,
                   grow_in, grow_out>>

\* build_explain_prompt, explain_snippet(..).await and the reading of its reply
Explain ==
    /\ pc = "grown"
    /\ \E t \in ExplainTokenCounts :
          /\ tokens_used' = Some(t)
          /\ max_tokens' = Some(Clamp(SaturatingSub(ContextWindow, t)))
    /\ calls' = Append(calls, "explain")
    /\ \E r \in ExplainResponses :
          IF r.sent = "err"
          THEN /\ Fail(IF r.status = Some(SERVICE_UNAVAILABLE) THEN "UpstreamService" ELSE "Internal")
               /\ UNCHANGED <<explain_status, snippet_explanation>>
          ELSE /\ explain_status' = r.status
               /\ IF r.body = None
                  THEN Fail("Internal") /\ UNCHANGED snippet_explanation
                  ELSE /\ snippet_explanation' = r.body
                       /\ pc' = "explained"
                       /\ UNCHANGED err
    /\ UNCHANGED <<query, backend, snippets_by_file, order, snippets,
                   relevant_snippet_index, select_status, doc, grow_size, grown,
                   payload, grow_in, grow_out>>

\* snippets.swap, segment.track_query(..).await when configured, and the response
Assemble ==
    /\ pc = "explained"
    /\ snippets' = Swap(snippets, relevant_snippet_index[1], 0)
    /\ \E segment \in BOOLEAN :
          calls' = IF segment THEN Append(calls, "analytics") ELSE calls
    /\ payload' = Some([snippets |-> snippets',
                        selection |-> [index |-> 0, answer |-> snippet_explanation[1]]])
    /\ pc' = "done"
    /\ UNCHANGED <<query, backend, snippets_by_file, order, relevant_snippet_index,
                   select_status, explain_status, doc, grow_size, grown, tokens_used,
                   max_tokens, err, snippet_explanation, grow_in, grow_out>>

Next ==
    \/ Parse
    \/ Search
    \/ Resolve
    \/ Rank
    \/ Select
    \/ Fetch
    \/ GrowStep
    \/ Explain
    \/ Assemble

Spec == Init /\ [][Next]_vars

NextResolver ==
    \/ Parse
    \/ Search
    \/ Resolve
    \/ Rank

ResolverSpec == InitResolver /\ [][NextResolver]_vars

(***************************************************************************)
(* Direct calls of grow, on small files.                                   *)
(***************************************************************************)
Contents == SeqsUpTo({NL, X}, MaxContent)

InitGrow ==
    /\ pc = "grow_call"
    /\ query = "ok"
    /\ backend = SearchFail
    /\ snippets_by_file = <<>>
    /\ order = None
    /\ snippets = <<>>
    /\ calls = <<>>
    /\ relevant_snippet_index = None
    /\ select_status = None
    /\ explain_status = None
    /\ doc = None
    /\ grow_size = InitialGrowSize
    /\ grown = None
    /\ tokens_used = None
    /\ max_tokens = None
    /\ err = None
    /\ snippet_explanation = None
    /\ payload = None
    /\ grow_out = None
    /\ \E content \in Contents, start_byte \in 0..MaxContent, end_byte \in 0..MaxContent,
          size \in 0..MaxSize :
          grow_in = Some([content |-> content, start_byte |-> start_byte,
                          end_byte |-> end_byte, size |-> size])

GrowCall ==
    /\ pc = "grow_call"
    /\ grow_out' = Some(Grow(grow_in[1].content, grow_in[1].start_byte,
                             grow_in[1].end_byte, grow_in[1].size))
    /\ pc' = "grow_returned"
    /\ UNCHANGED <<query, backend, snippets_by_file, order, snippets, calls,
                   relevant_snippet_index, select_status, explain_status, doc,
                   grow_size, grown, tokens_used, max_tokens, err,
                   snippet_explanation, payload, grow_in>>

NextGrow == GrowCall

GrowSpec == InitGrow /\ [][NextGrow]_vars

(***************************************************************************)
(* Properties.                                                             *)
(***************************************************************************)
IsPrefix(s, u) == Len(s) <= Len(u) /\ \A i \in DOMAIN s : s[i] = u[i]
SameBag(s, u) == Len(s) = Len(u) /\ \A x \in Range(s) \cup Range(u) : Count(s, x) = Count(u, x)
Ranked == order # None
\* the shortlist as the ranking left it (before the reordering of Assemble)
RankedSet == RankWith(snippets_by_file, order[1])
\* the passages of file p in the order in which the search returned them
FileGroup(p) == SelectSeq(backend.hits, LAMBDA h : h.relative_path = p)
Resolved == pc \in {"resolved", "ranked"}

\* C1: when the ranked shortlist is empty the request fails at the ranking stage with
\* an Internal error: no call follows the search and no answer is returned.
C1_EmptyShortlistFailsAtRanking ==
    (Ranked /\ RankedSet = <<>>) =>
        /\ calls = <<"search">>
        /\ payload = None
        /\ pc = "ranked" \/ (pc = "failed" /\ err = Some("Internal"))

\* C2: a 503 answer to the selection call or to the explanation call fails the
\* request with UpstreamService; its body is neither parsed as an index nor returned
\* as the answer.
C2_OverloadIsUpstreamError ==
    /\ select_status = Some(SERVICE_UNAVAILABLE) =>
          pc = "failed" /\ err = Some("UpstreamService") /\ relevant_snippet_index = None
    /\ explain_status = Some(SERVICE_UNAVAILABLE) =>
          /\ pc = "failed" /\ err = Some("UpstreamService")
          /\ snippet_explanation = None /\ payload = None

\* C3 as stated: no slice is computed with a window size greater than 100.
C3_WindowAtMost100 == grown # None => grown[1].size <= MaxGrowSize

\* C3 amended: every slice is computed with a window size in 40, 50, .., 110, the
\* loop variable never exceeds 110, and every iteration that does not leave the loop
\* increases it by 10, so the loop ends after at most 8 iterations.
C3_WindowAtMost110 ==
    /\ [](/\ grow_size \in {InitialGrowSize + k * GrowStepSize : k \in 0..7}
          /\ grown # None => /\ grown[1].size \in {InitialGrowSize + k * GrowStepSize : k \in 0..7}
                             /\ grown[1].size <= grow_size
                             /\ grown[1].size <= MaxGrowSize + GrowStepSize)
    /\ [][(pc = "growing" /\ pc' = "growing") => grow_size' = grow_size + GrowStepSize]_vars

C3_Witness == pc = "grown" /\ grown # None /\ grown[1].size = MaxGrowSize + GrowStepSize

\* C4: the shortlist does not depend on the order in which the per-file groups are
\* iterated, and never has more than 15 elements.
C4_RankingDeterministic ==
    Ranked =>
        /\ Len(RankedSet) <= SNIPPET_COUNT
        /\ \A ord \in Perms(DOMAIN snippets_by_file) : RankWith(snippets_by_file, ord) = RankedSet

PairOverlaps(a, b) == b.start_line <= a.end_line /\ a.end_line <= b.end_line

\* C5: of two passages a, b of one file with b.start_line <= a.end_line <= b.end_line
\* at most one is in the resolver's output.
C5_OverlappingPairNotBothKept ==
    Resolved =>
        \A p \in DOMAIN snippets_by_file :
            LET in == FileGroup(p)
                out == snippets_by_file[p]
            IN  \A i, j \in DOMAIN in :
                    (i # j /\ PairOverlaps(in[i], in[j])) =>
                        IF in[i] = in[j] THEN Count(out, in[i]) <= 1
                        ELSE Count(out, in[i]) + Count(out, in[j]) <= 1

C5_Witness ==
    /\ pc = "resolved"
    /\ \E p \in DOMAIN snippets_by_file :
          /\ Len(FileGroup(p)) = 3
          /\ Len(snippets_by_file[p]) = 2
          /\ \E i, j \in 1..3 :
                /\ i # j /\ FileGroup(p)[i] # FileGroup(p)[j]
                /\ PairOverlaps(FileGroup(p)[i], FileGroup(p)[j])
                /\ Count(snippets_by_file[p], FileGroup(p)[i]) = 1
                /\ Count(snippets_by_file[p], FileGroup(p)[j]) = 0

NonOverlapping(g) ==
    \A i, j \in DOMAIN g :
        i # j => \/ g[i].end_line < g[j].start_line
                 \/ g[j].end_line < g[i].start_line

\* C6: a file group whose passages are pairwise non-overlapping (of any two, the one
\* ending later starts strictly after the other ends) comes out of the resolver as
\* the same multiset, in ascending order of score.
C6_NonOverlappingKept ==
    Resolved =>
        \A p \in DOMAIN snippets_by_file :
            NonOverlapping(FileGroup(p)) =>
                /\ SameBag(snippets_by_file[p], FileGroup(p))
                /\ \A i, j \in DOMAIN snippets_by_file[p] :
                       i < j => snippets_by_file[p][i].score <= snippets_by_file[p][j].score

C6_Witness ==
    /\ pc = "resolved"
    /\ \E p \in DOMAIN snippets_by_file :
          /\ Len(FileGroup(p)) = 3
          /\ NonOverlapping(FileGroup(p))
          /\ snippets_by_file[p] # FileGroup(p)
          /\ SameBag(snippets_by_file[p], FileGroup(p))

\* C7: in the answer, snippets is the shortlist with the elements at index 0 and at
\* the selected index exchanged and every other position unchanged, and
\* selection.index is 0.
C7_SingleSwap ==
    pc = "done" =>
        LET before == RankedSet
            after == payload[1].snippets
            i == relevant_snippet_index[1]
        IN  /\ i < Len(before)
            /\ Len(after) = Len(before)
            /\ At(after, 0) = At(before, i)
            /\ At(after, i) = At(before, 0)
            /\ \A k \in 0..(Len(before) - 1) : k \notin {0, i} => At(after, k) = At(before, k)
            /\ SameBag(after, before)
            /\ after = snippets
            /\ payload[1].selection.index = 0

C7_Witness ==
    /\ pc = "done"
    /\ relevant_snippet_index = Some(2)
    /\ Len(RankedSet) >= 4
    /\ At(RankedSet, 0) # At(RankedSet, 1)
    /\ At(RankedSet, 1) # At(RankedSet, 2)
    /\ At(payload[1].snippets, 2) = At(RankedSet, 0)

CallOrder == <<"search", "select", "fetch", "explain", "analytics">>

C9_ExplainBudget ==
    tokens_used # None =>
        LET t == tokens_used[1]
            budget == IF ContextWindow - t > 0 THEN ContextWindow - t ELSE 0
        IN  /\ SaturatingSub(ContextWindow, t) = budget
            /\ max_tokens # None
            /\ max_tokens[1] \in 1..500
            /\ (budget \in 1..500) => max_tokens[1] = budget
            /\ budget > 500 => max_tokens[1] = 500
            /\ budget = 0 => max_tokens[1] = 1
            /\ "explain" \in Range(calls)

C9_Witness ==
    /\ pc = "done"
    /\ tokens_used = Some(4200)
    /\ max_tokens = Some(1)
    /\ calls[4] = "explain"

\* grow on valid offsets.  NewlinesBefore / NewlinesFrom are the offsets of the
\* newlines before start_byte / at or after end_byte.
GrowArgs == grow_in[1]
ValidOffsets ==
    /\ GrowArgs.start_byte <= GrowArgs.end_byte
    /\ GrowArgs.end_byte <= Len(GrowArgs.content)
NewlinesBefore ==
    {i \in 0..(GrowArgs.start_byte - 1) : At(GrowArgs.content, i) = NL}
NewlinesFrom ==
    {i \in GrowArgs.end_byte..(Len(GrowArgs.content) - 1) : At(GrowArgs.content, i) = NL}
\* the k-th (k >= 1) newline scanning backward / forward, or the clamp value
KthBackward(k) ==
    IF Cardinality(NewlinesBefore) >= k
    THEN CHOOSE x \in NewlinesBefore : Cardinality({y \in NewlinesBefore : y > x}) = k - 1
    ELSE 0
KthForward(k) ==
    IF Cardinality(NewlinesFrom) >= k
    THEN CHOOSE x \in NewlinesFrom : Cardinality({y \in NewlinesFrom : y < x}) = k - 1
    ELSE Len(GrowArgs.content)
GrowReturns(s, e) ==
    /\ grow_out[1] # None
    /\ grow_out[1][1].new_start_byte = s
    /\ grow_out[1][1].new_end_byte = e
    /\ grow_out[1][1].text = SubSeq(GrowArgs.content, s + 1, e)
    /\ 0 <= s /\ s <= GrowArgs.start_byte /\ GrowArgs.end_byte <= e
    /\ e <= Len(GrowArgs.content)

\* C10 as stated: grow returns content[s..e] with s the offset of the N-th newline
\* scanning backward from start_byte (0 if fewer than N precede) and e that of the
\* N-th newline scanning forward from end_byte (len if fewer than N follow).
C10_GrowNthNewline ==
    (pc = "grow_returned" /\ ValidOffsets /\ GrowArgs.size >= 1) =>
        GrowReturns(KthBackward(GrowArgs.size), KthForward(GrowArgs.size))

\* C10 amended: s is the offset of the (N+1)-th newline scanning backward from
\* start_byte (0 if fewer than N+1 precede) and e that of the (N+1)-th newline at or
\* after end_byte (len if fewer than N+1 follow); 0 <= s <= start_byte <= end_byte
\* <= e <= len.
C10_GrowNextNewline ==
    (pc = "grow_returned" /\ ValidOffsets) =>
        GrowReturns(KthBackward(GrowArgs.size + 1), KthForward(GrowArgs.size + 1))

C10_Witness ==
    /\ pc = "grow_returned"
    /\ ValidOffsets
    /\ GrowArgs.size = 1
    /\ GrowArgs.end_byte > 0
    /\ grow_out[1] # None
    /\ grow_out[1][1].new_start_byte > 0
    /\ grow_out[1][1].new_end_byte < Len(GrowArgs.content)
    /\ grow_out[1][1].new_end_byte > GrowArgs.end_byte

====
